---- MODULE Spec2Model ----
(***************************************************************************)
(* The feature-toggle core: the pure functions of lib/feature-utils.ts and *)
(* the useFeatureToggles hook (hooks/useFeatureToggles.ts) that composes   *)
(* them with React state.                                                  *)
(*                                                                         *)
(* A JavaScript string is a sequence of one-character strings, so that     *)
(* toLowerCase, includes and the sort of getUniqueCategories are computed  *)
(* and not assumed.  null is the tuple <<"null">>, which is no string of   *)
(* the model (its only element has four characters).                       *)
(*                                                                         *)
(* React state: features, filters, isLoading and error are the values the  *)
(* last render returned.  A call of a setter or of toggleFeature queues a  *)
(* functional update; React applies the queued updates in order at the     *)
(* next render.  pending holds the queue folded over the base state (each  *)
(* updater is a pure function of prev, so the fold is what the render      *)
(* computes), dirty says which state objects the queue replaces, and       *)
(* batchLen counts the queued calls.  Reference identity is what a render  *)
(* reports in call.isNew: for each object it returns, whether it is        *)
(* another object than the one the previous render returned; call.equal    *)
(* says whether the collection and the selection are equal in value to     *)
(* those the previous render returned.                                     *)
(***************************************************************************)
EXTENDS Integers, Sequences, FiniteSets, TLC

VARIABLES
    features,          \* Feature[] returned by the last render
    filters,           \* FeatureFilters returned by the last render
    isLoading,         \* boolean
    error,             \* string | null
    filteredFeatures,  \* useMemo value
    counts,            \* useMemo value
    categories,        \* useMemo value
    pending,           \* the state the queued updates produce
    dirty,             \* which state objects the queued updates replace
    batchLen,          \* number of calls queued since the last render
    call,              \* history: the one call queued, or that several are, or the last render
    options,           \* history: the options the hook was constructed with
    retried,           \* history: retry() has been called
    phase,             \* "hook" for the controller, "input"/"output" for a pure function
    argument,          \* the argument of a pure function or component that is no collection
    result             \* what a pure function or component returned

vars == <<features, filters, isLoading, error, filteredFeatures, counts,
          categories, pending, dirty, batchLen, call, options, retried,
          phase, argument, result>>

----------------------------------------------------------------------------
(* Bounds *)

\* calls queued in one batch (one act() block, one event handler)
MaxBatch == 3

\* length of the collections given to the pure functions
MaxFeatures == 2

\* length of the collections given to the functions that read only the category
MaxLabelled == 3

\* milliseconds that pass while ids are generated
MaxClock == 2

\* calls of generateFeatureId in one process
MaxIds == 3

----------------------------------------------------------------------------
(* Strings *)

NULL == <<"null">>

\* undefined, the value of a field that is missing
UNDEFINED == <<"undefined">>

\* !v of a string, null or undefined
Falsy(v) == v \in {UNDEFINED, NULL, <<>>}

\* An optional prop or option is a sequence of at most one value: empty when
\* the caller leaves it out (undefined), the value given otherwise.
Absent == <<>>
Given(v) == <<v>>

\* a destructuring that takes the default whatever the caller gave
DefaultAlways(prop, default) == default

\* a destructured prop or option with a default value: the default replaces
\* undefined only
WithDefault(prop, default) == IF prop = Absent THEN default ELSE prop[1]

Str1(a) == <<a>>
Str2(a, b) == <<a, b>>
Str3(a, b, c) == <<a, b, c>>

UpperCaseLetters ==
    <<"A", "B", "C", "D", "E", "F", "G", "H", "I", "J", "K", "L", "M",
      "N", "O", "P", "Q", "R", "S", "T", "U", "V", "W", "X", "Y", "Z">>

LowerCaseLetters ==
    <<"a", "b", "c", "d", "e", "f", "g", "h", "i", "j", "k", "l", "m",
      "n", "o", "p", "q", "r", "s", "t", "u", "v", "w", "x", "y", "z">>

IsLetterOf(c, letters) == \E i \in 1..26 : letters[i] = c

IndexIn(c, letters) == CHOOSE i \in 1..26 : letters[i] = c

\* UTF-16 code unit of a character; the characters of the model are
\* space, hyphen, 1, 2 and the letters
charCodeAt(c) ==
    CASE c = " " -> 32
      [] c = "1" -> 49
      [] c = "2" -> 50
      [] c = "A" -> 65
      [] c = "B" -> 66
      [] c = "a" -> 97
      [] c = "b" -> 98
      [] c = "-" -> 45
      [] IsLetterOf(c, LowerCaseLetters) -> 96 + IndexIn(c, LowerCaseLetters)
      [] IsLetterOf(c, UpperCaseLetters) -> 64 + IndexIn(c, UpperCaseLetters)

LowerChar(c) ==
    CASE c = "A" -> "a"
      [] c = "B" -> "b"
      [] IsLetterOf(c, UpperCaseLetters) -> LowerCaseLetters[IndexIn(c, UpperCaseLetters)]
      [] OTHER -> c

\* String.prototype.toLowerCase
toLowerCase(s) == [i \in 1..Len(s) |-> LowerChar(s[i])]

\* String.prototype.includes
includes(s, t) ==
    \E k \in 0..(Len(s) - Len(t)) : SubSeq(s, k + 1, k + Len(t)) = t

----------------------------------------------------------------------------
(* lib/feature-utils.ts *)

\* a search that forgets the description
NameOnlySearch(feature, f) ==
    \/ f.search = <<>>
    \/ includes(toLowerCase(feature.name), toLowerCase(f.search))

matchesSearch(feature, f) ==
    \/ f.search = <<>>
    \/ includes(toLowerCase(feature.name), toLowerCase(f.search))
    \/ includes(toLowerCase(feature.description), toLowerCase(f.search))

\* a filter that does not look at the status
StatusIgnored(feature, f) == TRUE

matchesStatus(feature, f) ==
    \/ f.status = "all"
    \/ (f.status = "enabled" /\ feature.enabled)
    \/ (f.status = "disabled" /\ ~feature.enabled)

matchesCategory(feature, f) ==
    f.category = NULL \/ feature.category = f.category

filterKeeps(feature, f) ==
    matchesSearch(feature, f) /\ matchesStatus(feature, f) /\ matchesCategory(feature, f)

\* Array.prototype.filter with the callback of filterFeatures
filterFeatures(fs, f) ==
    LET Test(feature) == filterKeeps(feature, f)
    IN  SelectSeq(fs, Test)

countFeaturesByStatus(fs) ==
    LET enabled == Len(SelectSeq(fs, LAMBDA x : x.enabled))
    IN  [enabled |-> enabled, disabled |-> Len(fs) - enabled, total |-> Len(fs)]

\* the default comparison of Array.prototype.sort: by UTF-16 code units
RECURSIVE StrLess(_, _)
StrLess(s, t) ==
    IF s = <<>> THEN t # <<>>
    ELSE IF t = <<>> THEN FALSE
    ELSE IF charCodeAt(Head(s)) # charCodeAt(Head(t))
         THEN charCodeAt(Head(s)) < charCodeAt(Head(t))
         ELSE StrLess(Tail(s), Tail(t))

RECURSIVE SortSet(_)
SortSet(S) ==
    IF S = {} THEN <<>>
    ELSE LET m == CHOOSE x \in S : \A y \in S \ {x} : StrLess(x, y)
         IN  <<m>> \o SortSet(S \ {m})

\* the categories as the records give them: no Set, no sort
CategoriesAsGiven(fs) == [i \in 1..Len(fs) |-> fs[i].category]

getUniqueCategories(fs) ==
    SortSet({fs[i].category : i \in 1..Len(fs)})

----------------------------------------------------------------------------
(* hooks/useFeatureToggles.ts *)

ErrorMessage == <<"Failed to load features">>

InitialFilters == [search |-> <<>>, status |-> "all", category |-> NULL]

\* The updaters passed to setFilters and setFeatures.  prev is the state React
\* hands to the updater (the state with the updates queued before it applied);
\* shown is the value of the same state in the render whose closure made the
\* call, which the code does not read.

\* a setter that spreads the rendered filters instead of prev
StaleSetSearch(prev, shown, search) == [shown EXCEPT !.search = search]

\* prev => ({ ...prev, search })
setSearchUpdater(prev, shown, search) == [prev EXCEPT !.search = search]

\* prev => ({ ...prev, status })
setStatusUpdater(prev, shown, status) == [prev EXCEPT !.status = status]

\* prev => ({ ...prev, category })
setCategoryUpdater(prev, shown, category) == [prev EXCEPT !.category = category]

\* a toggle that forgets the id test
ToggleEveryRecord(prev, shown, id, enabled) ==
    [i \in 1..Len(prev) |-> [prev[i] EXCEPT !.enabled = enabled]]

\* a toggle that keeps only the record it changes
ToggleDropsOthers(prev, shown, id, enabled) ==
    LET Hit(feature) == feature.id = id
        hits == SelectSeq(prev, Hit)
    IN  [i \in 1..Len(hits) |-> [hits[i] EXCEPT !.enabled = enabled]]

\* a toggle that inverts the flag instead of setting it to the value given
ToggleFlips(prev, shown, id, enabled) ==
    [i \in 1..Len(prev) |->
        IF prev[i].id = id THEN [prev[i] EXCEPT !.enabled = ~@] ELSE prev[i]]

\* a toggle that maps over the collection of the render whose closure made the
\* call, not over the state React hands to the updater
StaleToggle(prev, shown, id, enabled) ==
    [i \in 1..Len(shown) |->
        IF shown[i].id = id THEN [shown[i] EXCEPT !.enabled = enabled] ELSE shown[i]]

\* prev => prev.map(feature => feature.id === id ? { ...feature, enabled } : feature)
toggleFeatureUpdater(prev, shown, id, enabled) ==
    [i \in 1..Len(prev) |->
        IF prev[i].id = id THEN [prev[i] EXCEPT !.enabled = enabled] ELSE prev[i]]

\* a map whose callback spreads every record
EveryRecordCopied(prev, id) == 1..Len(prev)

\* the positions where the callback of the map returns a new object
\* ({ ...feature, enabled }) and not the feature it was given
replacedByToggle(prev, id) == {i \in 1..Len(prev) : prev[i].id = id}

\* useMemo(compute, deps): the cached value unless a dependency is another object
useMemo(cached, computed, depsChanged) ==
    IF depsChanged THEN computed ELSE cached

\* dependency arrays that miss an input
FeaturesOnlyDeps(d) == d.features
FiltersOnlyDeps(d) == d.filters
EmptyDeps(d) == FALSE

\* deps of filteredFeatures: [features, filters]
filteredFeaturesDeps(d) == d.features \/ d.filters

\* deps of counts: [features]
countsDeps(d) == d.features

\* deps of categories: [features]
categoriesDeps(d) == d.features

hookCounts(fs) ==
    LET c == countFeaturesByStatus(fs)
    IN  [all |-> c.total, enabled |-> c.enabled, disabled |-> c.disabled]

Clean == [features |-> FALSE, filters |-> FALSE]

NoCall == [op |-> "none"]

Feature(id, name, description, enabled, category) ==
    [id |-> id, name |-> name, description |-> description,
     enabled |-> enabled, category |-> category]

\* the sample data the hook starts with when no initialFeatures are given
INITIAL_FEATURES ==
    <<
       Feature("dark-mode",
               <<"D", "a", "r", "k", " ", "M", "o", "d", "e">>,
               <<"E", "n", "a", "b", "l", "e", " ", "d", "a", "r", "k", " ", "t", "h",
                 "e", "m", "e", " ", "f", "o", "r", " ", "t", "h", "e", " ", "a", "p",
                 "p", "l", "i", "c", "a", "t", "i", "o", "n", " ", "i", "n", "t", "e",
                 "r", "f", "a", "c", "e">>,
               TRUE,
               <<"u", "i">>),
       Feature("beta-features",
               <<"B", "e", "t", "a", " ", "F", "e", "a", "t", "u", "r", "e", "s">>,
               <<"A", "c", "c", "e", "s", "s", " ", "e", "x", "p", "e", "r", "i", "m",
                 "e", "n", "t", "a", "l", " ", "f", "e", "a", "t", "u", "r", "e", "s",
                 " ", "b", "e", "f", "o", "r", "e", " ", "g", "e", "n", "e", "r", "a",
                 "l", " ", "r", "e", "l", "e", "a", "s", "e">>,
               FALSE,
               <<"e", "x", "p", "e", "r", "i", "m", "e", "n", "t", "a", "l">>),
       Feature("analytics",
               <<"A", "n", "a", "l", "y", "t", "i", "c", "s", " ", "D", "a", "s", "h",
                 "b", "o", "a", "r", "d">>,
               <<"T", "r", "a", "c", "k", " ", "a", "n", "d", " ", "v", "i", "s", "u",
                 "a", "l", "i", "z", "e", " ", "u", "s", "e", "r", " ", "e", "n", "g",
                 "a", "g", "e", "m", "e", "n", "t", " ", "m", "e", "t", "r", "i", "c",
                 "s">>,
               TRUE,
               <<"d", "a", "t", "a">>),
       Feature("notifications",
               <<"P", "u", "s", "h", " ", "N", "o", "t", "i", "f", "i", "c", "a", "t",
                 "i", "o", "n", "s">>,
               <<"R", "e", "c", "e", "i", "v", "e", " ", "r", "e", "a", "l", "-", "t",
                 "i", "m", "e", " ", "a", "l", "e", "r", "t", "s", " ", "f", "o", "r",
                 " ", "i", "m", "p", "o", "r", "t", "a", "n", "t", " ", "e", "v", "e",
                 "n", "t", "s">>,
               FALSE,
               <<"c", "o", "m", "m", "u", "n", "i", "c", "a", "t", "i", "o", "n">>),
       Feature("two-factor",
               <<"T", "w", "o", "-", "F", "a", "c", "t", "o", "r", " ", "A", "u", "t",
                 "h">>,
               <<"A", "d", "d", " ", "a", "n", " ", "e", "x", "t", "r", "a", " ", "l",
                 "a", "y", "e", "r", " ", "o", "f", " ", "s", "e", "c", "u", "r", "i",
                 "t", "y", " ", "t", "o", " ", "y", "o", "u", "r", " ", "a", "c", "c",
                 "o", "u", "n", "t">>,
               TRUE,
               <<"s", "e", "c", "u", "r", "i", "t", "y">>),
       Feature("api-access",
               <<"A", "P", "I", " ", "A", "c", "c", "e", "s", "s">>,
               <<"E", "n", "a", "b", "l", "e", " ", "p", "r", "o", "g", "r", "a", "m",
                 "m", "a", "t", "i", "c", " ", "a", "c", "c", "e", "s", "s", " ", "v",
                 "i", "a", " ", "R", "E", "S", "T", " ", "A", "P", "I">>,
               FALSE,
               <<"d", "e", "v", "e", "l", "o", "p", "e", "r">>),
       Feature("auto-save",
               <<"A", "u", "t", "o", "-", "S", "a", "v", "e">>,
               <<"A", "u", "t", "o", "m", "a", "t", "i", "c", "a", "l", "l", "y", " ",
                 "s", "a", "v", "e", " ", "c", "h", "a", "n", "g", "e", "s", " ", "a",
                 "s", " ", "y", "o", "u", " ", "w", "o", "r", "k">>,
               TRUE,
               <<"p", "r", "o", "d", "u", "c", "t", "i", "v", "i", "t", "y">>),
       Feature("ai-suggestions",
               <<"A", "I", " ", "S", "u", "g", "g", "e", "s", "t", "i", "o", "n", "s">>,
               <<"G", "e", "t", " ", "i", "n", "t", "e", "l", "l", "i", "g", "e", "n",
                 "t", " ", "r", "e", "c", "o", "m", "m", "e", "n", "d", "a", "t", "i",
                 "o", "n", "s", " ", "p", "o", "w", "e", "r", "e", "d", " ", "b", "y",
                 " ", "m", "a", "c", "h", "i", "n", "e", " ", "l", "e", "a", "r", "n",
                 "i", "n", "g">>,
               FALSE,
               <<"e", "x", "p", "e", "r", "i", "m", "e", "n", "t", "a", "l">>)
    >>

\* a collection in the shape of createTestFeatures of the hook's test suite
TestFeatures ==
    << Feature("1", Str3("a", " ", "A"), Str3("b", " ", "1"), TRUE,  Str2("a", "1")),
       Feature("2", Str3("a", " ", "B"), Str3("b", " ", "2"), FALSE, Str2("a", "2")) >>

\* a collection a caller may pass: two records with one id
DuplicateIdFeatures ==
    << Feature("1", Str1("A"), Str1("b"), TRUE,  Str2("a", "1")),
       Feature("1", Str1("B"), Str1("b"), FALSE, Str2("a", "2")) >>

\* the values of options.initialFeatures
InitialCollections == {<<>>, TestFeatures, DuplicateIdFeatures}

\* the arguments the presentation layer passes
Ids == {"1", "2", "nonexistent"}
Searches == {<<>>, Str1("A")}
Statuses == {"all", "enabled", "disabled"}
Categories == {NULL, Str2("a", "1")}

\* what the first render of the hook returns, with the options it was given
\* after their defaults
useFeatureToggles(initialFeatures, simulateLoading, simulateError) ==
    [features |-> initialFeatures,
     filters |-> InitialFilters,
     isLoading |-> simulateLoading,
     error |-> IF simulateError THEN ErrorMessage ELSE NULL,
     filteredFeatures |-> filterFeatures(initialFeatures, InitialFilters),
     counts |-> hookCounts(initialFeatures),
     categories |-> getUniqueCategories(initialFeatures),
     options |-> [initialFeatures |-> initialFeatures,
                  simulateLoading |-> simulateLoading,
                  simulateError |-> simulateError]]

\* the state of the hook after its first render
Init ==
    /\ \E initialFeatures \in InitialCollections, simulateLoading \in BOOLEAN,
          simulateError \in BOOLEAN :
          LET hook == useFeatureToggles(initialFeatures, simulateLoading, simulateError)
          IN  /\ features = hook.features
              /\ filters = hook.filters
              /\ isLoading = hook.isLoading
              /\ error = hook.error
              /\ filteredFeatures = hook.filteredFeatures
              /\ counts = hook.counts
              /\ categories = hook.categories
              /\ pending = [features |-> hook.features, filters |-> hook.filters,
                            isLoading |-> hook.isLoading, error |-> hook.error]
              /\ options = hook.options
    /\ dirty = Clean
    /\ batchLen = 0
    /\ call = NoCall
    /\ retried = FALSE
    /\ phase = "hook"
    /\ argument = NULL
    /\ result = NULL

Shown == <<features, filters, isLoading, error, filteredFeatures, counts, categories>>

CanCall == phase = "hook" /\ batchLen < MaxBatch

\* the history of a call: the call itself when it is the batch's first
Queued(c) ==
    /\ batchLen' = batchLen + 1
    /\ call' = IF batchLen = 0 THEN c ELSE [op |-> "several"]
    /\ UNCHANGED <<Shown, options, phase, argument, result>>

\* a setSearch that also clears the error
SetSearchClearsError(search) ==
    /\ CanCall
    /\ pending' = [pending EXCEPT !.filters = setSearchUpdater(@, filters, search),
                                  !.error = NULL]
    /\ dirty' = [dirty EXCEPT !.filters = TRUE]
    /\ Queued([op |-> "setSearch", search |-> search])
    /\ UNCHANGED retried

\* a setSearch that keeps the filters object when the text is the current one
SetSearchKeepsEqual(search) ==
    /\ CanCall
    /\ pending' = [pending EXCEPT !.filters = setSearchUpdater(@, filters, search)]
    /\ dirty' = [dirty EXCEPT !.filters = @ \/ search # pending.filters.search]
    /\ Queued([op |-> "setSearch", search |-> search])
    /\ UNCHANGED retried

setSearch(search) ==
    /\ CanCall
    /\ pending' = [pending EXCEPT !.filters = setSearchUpdater(@, filters, search)]
    /\ dirty' = [dirty EXCEPT !.filters = TRUE]
    /\ Queued([op |-> "setSearch", search |-> search])
    /\ UNCHANGED retried

setStatus(status) ==
    /\ CanCall
    /\ pending' = [pending EXCEPT !.filters = setStatusUpdater(@, filters, status)]
    /\ dirty' = [dirty EXCEPT !.filters = TRUE]
    /\ Queued([op |-> "setStatus", status |-> status])
    /\ UNCHANGED retried

setCategory(category) ==
    /\ CanCall
    /\ pending' = [pending EXCEPT !.filters = setCategoryUpdater(@, filters, category)]
    /\ dirty' = [dirty EXCEPT !.filters = TRUE]
    /\ Queued([op |-> "setCategory", category |-> category])
    /\ UNCHANGED retried

toggleFeature(id, enabled) ==
    /\ CanCall
    /\ pending' = [pending EXCEPT !.features = toggleFeatureUpdater(@, features, id, enabled)]
    /\ dirty' = [dirty EXCEPT !.features = TRUE]
    /\ Queued([op |-> "toggleFeature", id |-> id, enabled |-> enabled,
               replaced |-> replacedByToggle(pending.features, id)])
    /\ UNCHANGED retried

\* a retry that forgets setIsLoading(false)
RetryClearsErrorOnly(p) == [p EXCEPT !.error = NULL]

\* a retry that starts loading again
RetryStartsLoading(p) == [p EXCEPT !.error = NULL, !.isLoading = TRUE]

\* setError(null); setIsLoading(false)
retryUpdate(p) == [p EXCEPT !.error = NULL, !.isLoading = FALSE]

retry ==
    /\ CanCall
    /\ pending' = retryUpdate(pending)
    /\ retried' = TRUE
    /\ Queued([op |-> "retry"])
    /\ UNCHANGED dirty

\* One run of the hook's body: the useState values are the queued updates'
\* result, each useMemo recomputes when a dependency is another object.  With
\* nothing queued it is a re-render (rerender() of the tests).
Render ==
    /\ phase = "hook"
    /\ features' = pending.features
    /\ filters' = pending.filters
    /\ isLoading' = pending.isLoading
    /\ error' = pending.error
    /\ filteredFeatures' = useMemo(filteredFeatures,
                                   filterFeatures(pending.features, pending.filters),
                                   filteredFeaturesDeps(dirty))
    /\ counts' = useMemo(counts, hookCounts(pending.features), countsDeps(dirty))
    /\ categories' = useMemo(categories, getUniqueCategories(pending.features),
                             categoriesDeps(dirty))
    /\ dirty' = Clean
    /\ batchLen' = 0
    /\ call' = [op |-> "render", calls |-> batchLen,
                isNew |-> [features |-> dirty.features, filters |-> dirty.filters,
                          filteredFeatures |-> filteredFeaturesDeps(dirty),
                          counts |-> countsDeps(dirty), categories |-> categoriesDeps(dirty)],
                equal |-> [features |-> pending.features = features,
                           filters |-> pending.filters = filters]]
    /\ UNCHANGED <<pending, options, retried, phase, argument, result>>

Next ==
    \/ \E search \in Searches : setSearch(search)
    \/ \E status \in Statuses : setStatus(status)
    \/ \E category \in Categories : setCategory(category)
    \/ \E id \in Ids, enabled \in BOOLEAN : toggleFeature(id, enabled)
    \/ retry
    \/ Render

Spec == Init /\ [][Next]_vars

----------------------------------------------------------------------------
(* filterFeatures as a pure function: every collection of at most          *)
(* MaxFeatures records over the values below, with every selection         *)

FilterNames == {Str2("a", "B"), Str3("b", " ", "A")}
FilterDescriptions == {<<>>, Str2("A", "b")}
FilterRecordCategories == {Str2("a", "1"), Str2("A", "1")}
FilterSearches == {<<>>, Str1(" "), Str2("a", "b"), Str2("B", " "), Str2("b", "b")}
FilterCategories == {NULL, Str2("a", "1"), Str2("A", "1"), Str1("a")}

PositionIds == <<"1", "2", "3", "4">>

FilterCollections ==
    UNION { [1..n -> FilterNames \X FilterDescriptions \X BOOLEAN \X FilterRecordCategories]
            : n \in 0..MaxFeatures }

AsFeatures(c) ==
    [i \in 1..Len(c) |-> Feature(PositionIds[i], c[i][1], c[i][2], c[i][3], c[i][4])]

FilterSelections ==
    [search : FilterSearches, status : Statuses, category : FilterCategories]

InitFilter ==
    /\ features \in {AsFeatures(c) : c \in FilterCollections}
    /\ filters \in FilterSelections
    /\ isLoading = FALSE
    /\ error = NULL
    /\ filteredFeatures = <<>>
    /\ counts = hookCounts(<<>>)
    /\ categories = <<>>
    /\ pending = [features |-> <<>>, filters |-> InitialFilters,
                  isLoading |-> FALSE, error |-> NULL]
    /\ dirty = Clean
    /\ batchLen = 0
    /\ call = NoCall
    /\ options = [initialFeatures |-> <<>>, simulateLoading |-> FALSE,
                  simulateError |-> FALSE]
    /\ retried = FALSE
    /\ phase = "input"
    /\ argument = NULL
    /\ result = NULL

\* result = filterFeatures(features, filters)
CallFilterFeatures ==
    /\ phase = "input"
    /\ filteredFeatures' = filterFeatures(features, filters)
    /\ phase' = "output"
    /\ call' = [op |-> "filterFeatures"]
    /\ UNCHANGED <<features, filters, isLoading, error, counts, categories,
                   pending, dirty, batchLen, options, retried, argument, result>>

NextFilter == CallFilterFeatures

SpecFilter == InitFilter /\ [][NextFilter]_vars

----------------------------------------------------------------------------
(* The other pure functions and the components: phase "input" holds the    *)
(* arguments (features, argument), the call moves to phase "output" with   *)
(* what was returned in result.                                            *)

\* the hook's variables, which a pure function does not have
NoHook ==
    /\ filters = InitialFilters
    /\ isLoading = FALSE
    /\ error = NULL
    /\ filteredFeatures = <<>>
    /\ counts = hookCounts(<<>>)
    /\ categories = <<>>
    /\ pending = [features |-> <<>>, filters |-> InitialFilters,
                  isLoading |-> FALSE, error |-> NULL]
    /\ dirty = Clean
    /\ batchLen = 0
    /\ call = NoCall
    /\ options = [initialFeatures |-> <<>>, simulateLoading |-> FALSE,
                  simulateError |-> FALSE]
    /\ retried = FALSE

Returns(op, value) ==
    /\ phase = "input"
    /\ result' = value
    /\ phase' = "output"
    /\ call' = [op |-> op]
    /\ UNCHANGED <<features, filters, isLoading, error, filteredFeatures, counts,
                   categories, pending, dirty, batchLen, options, retried,
                   argument>>

\* a collection whose records have the given categories, in the given order
Labelled(cs) ==
    [i \in 1..Len(cs) |-> Feature(PositionIds[i], Str1("A"), Str1("b"), i % 2 = 1, cs[i])]

----------------------------------------------------------------------------
(* filterFeatures called with each status on one collection, search text   *)
(* and category: result holds the three lists returned.                    *)

InitByStatus ==
    /\ features \in {AsFeatures(c) : c \in FilterCollections}
    /\ filters \in {f \in FilterSelections : f.status = "all"}
    /\ argument = NULL
    /\ result = NULL
    /\ isLoading = FALSE
    /\ error = NULL
    /\ filteredFeatures = <<>>
    /\ counts = hookCounts(<<>>)
    /\ categories = <<>>
    /\ pending = [features |-> <<>>, filters |-> InitialFilters,
                  isLoading |-> FALSE, error |-> NULL]
    /\ dirty = Clean
    /\ batchLen = 0
    /\ call = NoCall
    /\ options = [initialFeatures |-> <<>>, simulateLoading |-> FALSE,
                  simulateError |-> FALSE]
    /\ retried = FALSE
    /\ phase = "input"

\* the three calls filterFeatures(features, { ...filters, status })
CallFilterByStatus ==
    Returns("filterFeatures by status",
            [status \in Statuses |->
                filterFeatures(features, [filters EXCEPT !.status = status])])

NextByStatus == CallFilterByStatus

SpecByStatus == InitByStatus /\ [][NextByStatus]_vars

----------------------------------------------------------------------------
(* getUniqueCategories as a pure function, and as the hook uses it *)

SortedLabels ==
    {<<>>, Str1("a"), Str2("a", "1"), Str2("A", "1"), Str1("2"), Str2("1", "2")}

SortedCollections ==
    UNION { [1..n -> SortedLabels] : n \in 0..MaxLabelled }

InitCategories ==
    /\ features \in {Labelled(cs) : cs \in SortedCollections}
    /\ argument = NULL
    /\ result = NULL
    /\ phase = "input"
    /\ NoHook

\* result = getUniqueCategories(features)
CallGetUniqueCategories ==
    Returns("getUniqueCategories", getUniqueCategories(features))

NextCategories == CallGetUniqueCategories \/ Next

SpecCategories == (InitCategories \/ Init) /\ [][NextCategories]_vars

----------------------------------------------------------------------------
(* groupFeaturesByCategory *)

UNCATEGORIZED == <<"u", "n", "c", "a", "t", "e", "g", "o", "r", "i", "z", "e", "d">>
CONSTRUCTOR == <<"c", "o", "n", "s", "t", "r", "u", "c", "t", "o", "r">>
TO_STRING == <<"t", "o", "S", "t", "r", "i", "n", "g">>
VALUE_OF == <<"v", "a", "l", "u", "e", "O", "f">>

\* Keys that the accumulator {} inherits from Object.prototype; their values are
\* functions, which are truthy and have no push method.
ObjectPrototypeKeys == {CONSTRUCTOR, TO_STRING, VALUE_OF}

TypeError == [threw |-> TRUE, value |-> "TypeError: acc[category].push is not a function"]

Returned(value) == [threw |-> FALSE, value |-> value]

\* the key the reducer files a feature under
categoryKey(feature) ==
    IF Falsy(feature.category) THEN UNCATEGORIZED ELSE feature.category

\* features.reduce(callback, {}): acc maps the object's own keys to their arrays
RECURSIVE reduceByCategory(_, _)
reduceByCategory(fs, acc) ==
    IF fs = <<>> THEN Returned(acc)
    ELSE LET feature == Head(fs)
             category == categoryKey(feature)
         IN  IF category \in DOMAIN acc
             THEN reduceByCategory(Tail(fs), [acc EXCEPT ![category] = Append(@, feature)])
             ELSE IF category \in ObjectPrototypeKeys
             THEN TypeError
             ELSE reduceByCategory(Tail(fs), (category :> <<feature>>) @@ acc)

groupFeaturesByCategory(fs) == reduceByCategory(fs, <<>>)

GroupLabels ==
    {UNDEFINED, <<>>, Str1(" "), Str2("a", "1"), Str2("a", "2"), UNCATEGORIZED,
     CONSTRUCTOR, TO_STRING}

GroupCollections ==
    UNION { [1..n -> GroupLabels] : n \in 0..MaxLabelled }

InitGroup ==
    /\ features \in {Labelled(cs) : cs \in GroupCollections}
    /\ argument = NULL
    /\ result = NULL
    /\ phase = "input"
    /\ NoHook

\* result = groupFeaturesByCategory(features), or the exception it ends with
CallGroupFeaturesByCategory ==
    Returns("groupFeaturesByCategory", groupFeaturesByCategory(features))

NextGroup == CallGroupFeaturesByCategory

SpecGroup == InitGroup /\ [][NextGroup]_vars

----------------------------------------------------------------------------
(* validateFeature *)

NameMaxLength == 100
DescriptionMaxLength == 500

IsWhiteSpace(c) == c \in {" ", "\t", "\n"}

\* String.prototype.trim
trim(s) ==
    LET kept == {i \in 1..Len(s) : ~IsWhiteSpace(s[i])}
    IN  IF kept = {} THEN <<>>
        ELSE SubSeq(s, CHOOSE i \in kept : \A j \in kept : i <= j,
                       CHOOSE i \in kept : \A j \in kept : j <= i)

\* !value || value.trim() === ''
isMissing(value) == Falsy(value) \/ trim(value) = <<>>

\* a limit that a name of exactly the maximum length already breaks
NameErrorsAtLimit(feature) ==
    IF isMissing(feature.name) THEN <<"Name is required">>
    ELSE IF Len(feature.name) >= NameMaxLength
    THEN <<"Name must be less than 100 characters">>
    ELSE <<>>

nameErrors(feature) ==
    IF isMissing(feature.name) THEN <<"Name is required">>
    ELSE IF Len(feature.name) > NameMaxLength
    THEN <<"Name must be less than 100 characters">>
    ELSE <<>>

descriptionErrors(feature) ==
    IF isMissing(feature.description) THEN <<"Description is required">>
    ELSE IF Len(feature.description) > DescriptionMaxLength
    THEN <<"Description must be less than 500 characters">>
    ELSE <<>>

categoryErrors(feature) ==
    IF isMissing(feature.category) THEN <<"Category is required">> ELSE <<>>

\* a validation that returns at the first field in error
ValidateUntilFirstError(feature) ==
    IF nameErrors(feature) # <<>> THEN nameErrors(feature)
    ELSE IF descriptionErrors(feature) # <<>> THEN descriptionErrors(feature)
    ELSE categoryErrors(feature)

\* the three if statements push onto errors in this order
validateFeature(feature) ==
    nameErrors(feature) \o descriptionErrors(feature) \o categoryErrors(feature)

Repeat(c, n) == [i \in 1..n |-> c]

CandidateNames ==
    {UNDEFINED, <<>>, Str1(" "), Str2("\t", " "), Str3(" ", "a", " "),
     Repeat("a", NameMaxLength), Repeat("a", NameMaxLength + 1),
     Repeat(" ", NameMaxLength + 1), <<" ">> \o Repeat("a", NameMaxLength)}

CandidateDescriptions ==
    {UNDEFINED, <<>>, Str2(" ", "\n"), Str1("b"),
     Repeat("b", DescriptionMaxLength), Repeat("b", DescriptionMaxLength + 1),
     Repeat(" ", DescriptionMaxLength + 1)}

CandidateCategories == {UNDEFINED, <<>>, Str1(" "), Str2("a", "1")}

\* Partial<Feature>: the fields validateFeature reads
Candidates ==
    [name : CandidateNames, description : CandidateDescriptions,
     category : CandidateCategories]

InitValidate ==
    /\ features = <<>>
    /\ argument \in Candidates
    /\ result = NULL
    /\ phase = "input"
    /\ NoHook

\* result = validateFeature(argument)
CallValidateFeature ==
    Returns("validateFeature", validateFeature(argument))

NextValidate == CallValidateFeature

SpecValidate == InitValidate /\ [][NextValidate]_vars

----------------------------------------------------------------------------
(* generateFeatureId: argument is the clock, Date.now() in milliseconds    *)
(* since the process started measuring; result is the ids returned so far. *)

DecimalDigits == <<"0", "1", "2", "3", "4", "5", "6", "7", "8", "9">>

\* Number.prototype.toString(10) of a natural number
RECURSIVE toDecimal(_)
toDecimal(n) ==
    IF n < 10 THEN <<DecimalDigits[n + 1]>>
    ELSE toDecimal(n \div 10) \o <<DecimalDigits[(n % 10) + 1]>>

\* Math.random().toString(36).substr(2, 9) for Math.random() = 0 ("0"), 0.25
\* ("0.9") and 0.5 ("0.i"): Math.random() is uniform over [0, 1) and two calls
\* may return the same number
RandomSuffixes == {<<>>, Str1("9"), Str1("i")}

\* `feature_${now}_${suffix}`
generateFeatureId(now, suffix) ==
    <<"f", "e", "a", "t", "u", "r", "e", "_">> \o toDecimal(now) \o <<"_">> \o suffix

InitGenerate ==
    /\ features = <<>>
    /\ argument = 0
    /\ result = <<>>
    /\ phase = "clock"
    /\ NoHook

\* a millisecond passes
Tick ==
    /\ phase = "clock"
    /\ argument < MaxClock
    /\ argument' = argument + 1
    /\ UNCHANGED <<Shown, pending, dirty, batchLen, call, options, retried, phase,
                   result>>

CallGenerateFeatureId ==
    /\ phase = "clock"
    /\ Len(result) < MaxIds
    /\ \E suffix \in RandomSuffixes :
          result' = Append(result, generateFeatureId(argument, suffix))
    /\ call' = [op |-> "generateFeatureId"]
    /\ UNCHANGED <<Shown, pending, dirty, batchLen, options, retried, phase,
                   argument>>

NextGenerate == Tick \/ CallGenerateFeatureId

SpecGenerate == InitGenerate /\ [][NextGenerate]_vars

----------------------------------------------------------------------------
(* components/feature-toggle: FeatureList, FeatureCard and the switch.     *)
(* argument is the props of FeatureList, result what it renders; a click   *)
(* on a rendered switch records in call the onToggle calls it made.        *)

\* The switch of a card: a click calls onCheckedChange with the negation of
\* checked, once, unless the switch is disabled.  The value is the arguments of
\* the onCheckedChange calls of one click.
FeatureToggleSwitchClick(switch) ==
    IF switch.disabled THEN <<>> ELSE << ~switch.checked >>

\* a handler that passes the value the feature has
HandleTogglePassesCurrent(feature, checked) ==
    <<[id |-> feature.id, enabled |-> feature.enabled]>>

\* handleToggle = (checked) => { onToggle(feature.id, checked) }: the onToggle
\* calls it makes
handleToggle(feature, checked) ==
    <<[id |-> feature.id, enabled |-> checked]>>

\* a card that does not hand disabled on to its switch
CardNeverDisabled(props) ==
    [feature |-> props.feature,
     switch |-> [checked |-> props.feature.enabled, disabled |-> FALSE]]

\* what FeatureCard renders: the card of the feature and its switch
FeatureCard(props) ==
    [feature |-> props.feature,
     switch |-> [checked |-> props.feature.enabled,
                 disabled |-> WithDefault(props.disabled, FALSE)]]

View(view, message, items) == [view |-> view, message |-> message, items |-> items]

\* a list that looks at the error before it looks at isLoading
ErrorBeforeLoading(props) ==
    IF ~Falsy(WithDefault(props.error, NULL))
    THEN View("ErrorState", WithDefault(props.error, NULL), <<>>)
    ELSE IF WithDefault(props.isLoading, FALSE)
    THEN View("LoadingSkeleton", NULL, <<>>)
    ELSE View("list", NULL, <<>>)

\* the element FeatureList returns
FeatureList(props) ==
    LET isLoading_ == WithDefault(props.isLoading, FALSE)
        error_ == WithDefault(props.error, NULL)
        disabled_ == WithDefault(props.disabled, FALSE)
    IN  IF isLoading_ THEN View("LoadingSkeleton", NULL, <<>>)
        ELSE IF ~Falsy(error_) THEN View("ErrorState", error_, <<>>)
        ELSE IF Len(props.features) = 0 THEN View("EmptyState", NULL, <<>>)
        ELSE View("list", NULL,
                  [i \in 1..Len(props.features) |->
                      FeatureCard([feature |-> props.features[i],
                                   disabled |-> Given(disabled_)])])

ListCollections ==
    UNION { [1..n -> {"1", "2"} \X BOOLEAN] : n \in 0..MaxFeatures }

AsListed(c) ==
    [i \in 1..Len(c) |-> Feature(c[i][1], Str1("A"), Str1("b"), c[i][2], Str2("a", "1"))]

FeatureListProps ==
    [features : {AsListed(c) : c \in ListCollections},
     isLoading : {Absent, Given(FALSE), Given(TRUE)},
     error : {Absent, Given(NULL), Given(<<>>), Given(ErrorMessage)},
     disabled : {Absent, Given(FALSE), Given(TRUE)}]

InitList ==
    /\ features = <<>>
    /\ argument \in FeatureListProps
    /\ result = NULL
    /\ phase = "input"
    /\ NoHook

\* render(<FeatureList {...argument} />)
RenderFeatureList ==
    Returns("FeatureList", FeatureList(argument))

\* user.click on the switch of the card at position i of the rendered list
ClickSwitch(i) ==
    /\ phase \in {"output", "clicked"}
    /\ result.view = "list"
    /\ i \in 1..Len(result.items)
    /\ LET card == result.items[i]
           changes == FeatureToggleSwitchClick(card.switch)
       IN  call' = [op |-> "click", card |-> i,
                    onToggle |-> IF changes = <<>> THEN <<>>
                                 ELSE handleToggle(card.feature, changes[1])]
    /\ phase' = "clicked"
    /\ UNCHANGED <<Shown, pending, dirty, batchLen, options, retried, argument,
                   result>>

NextList ==
    \/ RenderFeatureList
    \/ \E i \in 1..MaxFeatures : ClickSwitch(i)

SpecList == InitList /\ [][NextList]_vars

----------------------------------------------------------------------------
(* Sequences of toggleFeature calls on one collection: argument holds two  *)
(* calls, result the collections that the calls leave when made once,      *)
(* twice, and one after the other in either order.  React hands each       *)
(* updater the collection the updater before it returned, within a batch   *)
(* and across renders alike.                                               *)

ToggleCalls == [id : Ids, enabled : BOOLEAN]

\* the collection after toggleFeature(c.id, c.enabled) on a hook showing R with
\* the updates queued so far giving prev
AfterToggle(prev, R, c) == toggleFeatureUpdater(prev, R, c.id, c.enabled)

InitToggles ==
    /\ features \in {AsListed(c) : c \in ListCollections}
    /\ argument \in [first : ToggleCalls, second : ToggleCalls]
    /\ result = NULL
    /\ phase = "input"
    /\ NoHook

CallToggles ==
    Returns("toggleFeature calls",
            [once |-> AfterToggle(features, features, argument.first),
             twice |-> AfterToggle(AfterToggle(features, features, argument.first),
                                   features, argument.first),
             firstSecond |-> AfterToggle(AfterToggle(features, features, argument.first),
                                         features, argument.second),
             secondFirst |-> AfterToggle(AfterToggle(features, features, argument.second),
                                         features, argument.first)])

NextToggles == CallToggles

SpecToggles == InitToggles /\ [][NextToggles]_vars

----------------------------------------------------------------------------
(* The construction of the hook: argument is the options the caller gives  *)
(* (or leaves out), the first render makes the state of the hook.          *)

UseFeatureTogglesOptions ==
    [initialFeatures : {Absent} \cup {Given(c) : c \in InitialCollections}
                                \cup {Given(AsListed(c)) : c \in ListCollections},
     simulateLoading : {Absent, Given(FALSE), Given(TRUE)},
     simulateError : {Absent, Given(FALSE), Given(TRUE)}]

NoOptions == [initialFeatures |-> Absent, simulateLoading |-> Absent,
              simulateError |-> Absent]

InitConstruct ==
    /\ features = <<>>
    /\ argument \in {Absent} \cup {Given(o) : o \in UseFeatureTogglesOptions}
    /\ result = NULL
    /\ phase = "options"
    /\ NoHook

\* renderHook(() => useFeatureToggles(options)): the first render
Construct ==
    /\ phase = "options"
    /\ LET o == WithDefault(argument, NoOptions)
           hook == useFeatureToggles(WithDefault(o.initialFeatures, INITIAL_FEATURES),
                                     WithDefault(o.simulateLoading, FALSE),
                                     WithDefault(o.simulateError, FALSE))
       IN  /\ features' = hook.features
           /\ filters' = hook.filters
           /\ isLoading' = hook.isLoading
           /\ error' = hook.error
           /\ filteredFeatures' = hook.filteredFeatures
           /\ counts' = hook.counts
           /\ categories' = hook.categories
           /\ pending' = [features |-> hook.features, filters |-> hook.filters,
                          isLoading |-> hook.isLoading, error |-> hook.error]
           /\ options' = hook.options
    /\ phase' = "hook"
    /\ UNCHANGED <<dirty, batchLen, call, retried, argument, result>>

NextConstruct == Construct

SpecConstruct == InitConstruct /\ [][NextConstruct]_vars

----------------------------------------------------------------------------
(* Properties *)

\* two characters that differ at most in case
SameLetter(c, d) ==
    \/ c = d
    \/ <<c, d>> \in {<<"A", "a">>, <<"a", "A">>, <<"B", "b">>, <<"b", "B">>}

\* part occurs in text at some offset, letter case ignored
OccursIgnoringCase(text, part) ==
    \E k \in 0..(Len(text) - Len(part)) :
        \A j \in 1..Len(part) : SameLetter(text[k + j], part[j])

\* the three predicates of a selection sel on a record r
Satisfies(r, sel) ==
    /\ \/ sel.search = <<>>
       \/ OccursIgnoringCase(r.name, sel.search)
       \/ OccursIgnoringCase(r.description, sel.search)
    /\ \/ sel.status = "all"
       \/ sel.status = (IF r.enabled THEN "enabled" ELSE "disabled")
    /\ \/ sel.category = NULL
       \/ sel.category = r.category

KeptPositions(R, sel) == {i \in 1..Len(R) : Satisfies(R[i], sel)}

\* out is R restricted to the positions K, in R's order
IsRestriction(out, R, K) ==
    /\ Len(out) = Cardinality(K)
    /\ \A i \in K : out[Cardinality({j \in K : j <= i})] = R[i]

HasId(fs, id) == \E i \in 1..Len(fs) : fs[i].id = id

IdsOf(fs) == [i \in 1..Len(fs) |-> fs[i].id]

UniqueIds(fs) ==
    \A i, j \in 1..Len(fs) : i # j => fs[i].id # fs[j].id

Rendered == phase = "hook" /\ call.op = "render"

\* C1: filterFeatures(R, S) is exactly the records of R that satisfy the search,
\* the status and the category predicate together, in R's order (so an empty R
\* gives an empty result).
C1_FilterExact ==
    phase = "output" =>
        IsRestriction(filteredFeatures, features, KeptPositions(features, filters))

\* C1 witness: of two records only the second is kept, by a selection that
\* constrains all three fields and matches only with the case folded.
C1_FilterCase ==
    /\ phase = "output"
    /\ Len(features) = 2
    /\ filteredFeatures = <<features[2]>>
    /\ filters.search # <<>>
    /\ filters.status # "all"
    /\ filters.category # NULL
    /\ ~includes(features[2].name, filters.search)
    /\ ~includes(features[2].description, filters.search)

\* C2: in every state the hook returns, filteredFeatures is
\* filterFeatures(features, filters) of the features and filters returned with it.
C2_FilteredNeverStale ==
    phase = "hook" => filteredFeatures = filterFeatures(features, filters)

\* C2 witness: a render after a batch that replaced the collection, with a
\* selection that keeps some records and drops others.
C2_FilteredCase ==
    /\ Rendered
    /\ call.calls > 0
    /\ call.isNew.features
    /\ filters # InitialFilters
    /\ Len(filteredFeatures) > 0
    /\ Len(filteredFeatures) < Len(features)

\* after is before with enabled = v on the records whose id is id, and nothing else changed
ToggledOnly(before, after, id, v) ==
    /\ Len(after) = Len(before)
    /\ \A i \in 1..Len(before) :
        IF before[i].id = id
        THEN after[i].id = id /\ after[i].enabled = v
        ELSE after[i] = before[i]

\* C3: toggleFeature(id, v) on a collection that has a record with that id gives
\* a collection where that record has enabled = v and every other record is equal
\* to what it was; the next render returns that collection.
C3_ToggleIsolation ==
    [][ /\ \A id \in Ids, v \in BOOLEAN :
            (toggleFeature(id, v) /\ HasId(pending.features, id)) =>
                ToggledOnly(pending.features, pending'.features, id, v)
        /\ Render => features' = pending.features ]_vars

\* C3 witness: one toggleFeature call on an id of the collection has changed it.
C3_ToggleCase ==
    /\ phase = "hook"
    /\ batchLen = 1
    /\ call.op = "toggleFeature"
    /\ HasId(features, call.id)
    /\ Len(features) = 2
    /\ pending.features # features

\* C4: toggleFeature(id, v) with an id no record has changes nothing: the
\* collection, the filters, error and isLoading are as before, queued and returned.
C4_ToggleUnknownNoOp ==
    [][ \A id \in Ids, v \in BOOLEAN :
            (toggleFeature(id, v) /\ ~HasId(pending.features, id)) =>
                /\ pending' = pending
                /\ features' = features
                /\ error' = error
                /\ isLoading' = isLoading ]_vars

\* C4 witness: toggleFeature was called with an id that a non-empty collection
\* does not have.
C4_ToggleUnknownCase ==
    /\ phase = "hook"
    /\ batchLen = 1
    /\ call.op = "toggleFeature"
    /\ Len(features) > 0
    /\ ~HasId(features, call.id)
    /\ pending.features = features

\* C5: counts is over the full collection whatever the selection is: all is the
\* number of records, enabled and disabled the numbers of records with the flag
\* set and unset, and enabled + disabled = all.
C5_CountsOverFullCollection ==
    phase = "hook" =>
        /\ counts.all = Len(features)
        /\ counts.enabled = Cardinality({i \in 1..Len(features) : features[i].enabled})
        /\ counts.disabled = Cardinality({i \in 1..Len(features) : ~features[i].enabled})
        /\ counts.enabled + counts.disabled = counts.all

\* C5 witness: after a toggle was rendered, with a selection that hides a record,
\* the counts are those of the full collection.
C5_CountsCase ==
    /\ Rendered
    /\ call.isNew.counts
    /\ Len(filteredFeatures) < Len(features)
    /\ counts.all = Len(features)
    /\ counts.enabled # hookCounts(options.initialFeatures).enabled

\* C6: each setter replaces its own field of the selection and leaves the other
\* two as the calls queued before it left them, so a batch of several setters
\* carries all their values; the next render returns that selection.
C6_SetterFrame ==
    [][ /\ \A search \in Searches :
            setSearch(search) =>
                pending'.filters = [search |-> search,
                                    status |-> pending.filters.status,
                                    category |-> pending.filters.category]
        /\ \A status \in Statuses :
            setStatus(status) =>
                pending'.filters = [search |-> pending.filters.search,
                                    status |-> status,
                                    category |-> pending.filters.category]
        /\ \A category \in Categories :
            setCategory(category) =>
                pending'.filters = [search |-> pending.filters.search,
                                    status |-> pending.filters.status,
                                    category |-> category]
        /\ Render => filters' = pending.filters ]_vars

\* C6 witness: a batch of three calls has changed all three fields of the
\* selection, which only setStatus, setCategory and setSearch together can do.
C6_BatchCase ==
    /\ phase = "hook"
    /\ batchLen = 3
    /\ pending.filters.search # filters.search
    /\ pending.filters.status # filters.status
    /\ pending.filters.category # filters.category

\* C7: once retry() was called, error is null and isLoading is false, whatever
\* the hook was constructed with: in the queued state at once, in the returned
\* state from the next render on; a further retry() changes nothing.
C7_RetryClears ==
    (phase = "hook" /\ retried) =>
        /\ pending.error = NULL
        /\ pending.isLoading = FALSE
        /\ batchLen = 0 => (error = NULL /\ isLoading = FALSE)
        /\ retryUpdate(pending) = pending

\* C7 witness: retry() on a hook constructed with both simulateError and
\* simulateLoading, rendered.
C7_RetryCase ==
    /\ Rendered
    /\ retried
    /\ options.simulateError
    /\ options.simulateLoading
    /\ error = NULL
    /\ isLoading = FALSE

InitialError == IF options.simulateError THEN ErrorMessage ELSE NULL

\* C8: until retry() is called, error and isLoading are what the hook was
\* constructed with, through every toggleFeature, setSearch, setStatus and
\* setCategory call and every render.
C8_OnlyRetryClears ==
    (phase = "hook" /\ ~retried) =>
        /\ error = InitialError
        /\ isLoading = options.simulateLoading
        /\ pending.error = InitialError
        /\ pending.isLoading = options.simulateLoading

\* C8 witness: a hook constructed with simulateError and simulateLoading still
\* shows both after toggles and all three setters were rendered.
C8_KeptCase ==
    /\ Rendered
    /\ ~retried
    /\ options.simulateError
    /\ options.simulateLoading
    /\ error = ErrorMessage
    /\ isLoading
    /\ features # options.initialFeatures
    /\ filters.search # <<>>
    /\ filters.status # "all"
    /\ filters.category # NULL

\* C9: a render with nothing queued returns the filteredFeatures object of the
\* previous render, and a render that changes the collection or the selection
\* returns a new one.
C9_Memoization ==
    [][ Render =>
            /\ batchLen = 0 =>
                 (~call'.isNew.filteredFeatures /\ filteredFeatures' = filteredFeatures)
            /\ (features' # features \/ filters' # filters) =>
                 call'.isNew.filteredFeatures ]_vars

\* C9 witness: a re-render with nothing queued, after the selection was changed,
\* returned the same filteredFeatures object.
C9_RerenderCase ==
    /\ Rendered
    /\ call.calls = 0
    /\ ~call.isNew.filteredFeatures
    /\ filters # InitialFilters
    /\ Len(filteredFeatures) < Len(features)

\* C10 as stated: in every state no two records of the collection share an id.
C10_NoTwoShareAnId ==
    phase = "hook" => UniqueIds(features)

\* C10 amended: no operation creates, deletes or re-identifies a record: the ids
\* of the collection, in order, are those of the initialFeatures given, so no two
\* records share an id if no two of the initialFeatures do.
C10_IdsPreserved ==
    phase = "hook" =>
        /\ IdsOf(features) = IdsOf(options.initialFeatures)
        /\ IdsOf(pending.features) = IdsOf(options.initialFeatures)
        /\ UniqueIds(options.initialFeatures) =>
             (UniqueIds(features) /\ UniqueIds(pending.features))

\* C10 witness: a collection with distinct ids after toggles were rendered.
C10_IdsCase ==
    /\ Rendered
    /\ Len(features) = 2
    /\ UniqueIds(options.initialFeatures)
    /\ \A i \in 1..2 : features[i].enabled # options.initialFeatures[i].enabled

IsWhitespaceOnly(s) == s # <<>> /\ \A i \in 1..Len(s) : s[i] = " "

\* C11: a search text that consists only of whitespace matches nothing: with
\* status 'all' and no category the result of filterFeatures is empty, whatever
\* the collection is.
C11_WhitespaceMatchesNothing ==
    (/\ phase = "output"
     /\ IsWhitespaceOnly(filters.search)
     /\ filters.status = "all"
     /\ filters.category = NULL) => filteredFeatures = <<>>

\* s comes before t in the order of the UTF-16 code units: s is a proper prefix
\* of t, or at the first position where they differ s has the smaller unit
LexBefore(s, t) ==
    \E k \in 1..(Len(t)) :
        /\ Len(s) >= k - 1
        /\ SubSeq(s, 1, k - 1) = SubSeq(t, 1, k - 1)
        /\ \/ Len(s) = k - 1
           \/ charCodeAt(s[k]) < charCodeAt(t[k])

CategoriesOf(fs) == {fs[i].category : i \in 1..Len(fs)}

\* out lists exactly the labels of R, each once, in ascending order
IsSortedLabelsOf(out, R) ==
    /\ {out[i] : i \in 1..Len(out)} = CategoriesOf(R)
    /\ \A i, j \in 1..Len(out) : i < j => LexBefore(out[i], out[j])

\* C12: getUniqueCategories(R) holds every category of R and no other, each once,
\* in ascending lexicographic order (so it is empty for an empty R), and in every
\* state the hook returns, categories is getUniqueCategories(features).
C12_UniqueSortedCategories ==
    /\ (phase = "output" /\ call.op = "getUniqueCategories") =>
           IsSortedLabelsOf(result, features)
    /\ phase = "hook" =>
           /\ categories = getUniqueCategories(features)
           /\ IsSortedLabelsOf(categories, features)

\* C12 witness: three records with two categories, the larger one first.
C12_CategoriesCase ==
    /\ phase = "output"
    /\ call.op = "getUniqueCategories"
    /\ Len(features) = 3
    /\ Len(result) = 2
    /\ features[1].category = result[2]
    /\ features[3].category = result[2]

\* the label a record is grouped under: its category, or the reserved label
\* when the category is missing or empty
LabelOf(r) ==
    IF r.category \in {UNDEFINED, <<>>} THEN UNCATEGORIZED ELSE r.category

\* C13: groupFeaturesByCategory(R) returns a mapping whose keys are the labels of
\* the records of R ('uncategorized' for a missing or empty category) and whose
\* value at a label is the records of R with that label, in R's order; it has
\* no keys for an empty R.
C13_GroupsByLabel ==
    (phase = "output" /\ call.op = "groupFeaturesByCategory") =>
        /\ ~result.threw
        /\ DOMAIN result.value = {LabelOf(features[i]) : i \in 1..Len(features)}
        /\ \A label \in DOMAIN result.value :
              IsRestriction(result.value[label], features,
                            {i \in 1..Len(features) : LabelOf(features[i]) = label})

\* C16: no operation ends with an exception: groupFeaturesByCategory returns a
\* mapping for every collection, whatever the category labels are.
C16_NeverThrows ==
    (phase = "output" /\ call.op = "groupFeaturesByCategory") => ~result.threw

\* a field that is missing, empty or all whitespace
IsBlank(v) ==
    v = UNDEFINED \/ \A i \in 1..Len(v) : v[i] \in {" ", "\t", "\n"}

Has(errors, message) == \E i \in 1..Len(errors) : errors[i] = message

\* the number of messages of errors that begin with the field's name
About(errors, messages) == Cardinality({i \in 1..Len(errors) : errors[i] \in messages})

\* C14: validateFeature(candidate) reports each field on its own: 'Name is
\* required' exactly when the name is missing or blank after trimming, and the
\* same for the description and the category, whatever the other fields are;
\* at most one message per field, so at most three; none for a valid candidate.
C14_ValidateEachField ==
    (phase = "output" /\ call.op = "validateFeature") =>
        /\ Has(result, "Name is required") <=> IsBlank(argument.name)
        /\ Has(result, "Description is required") <=> IsBlank(argument.description)
        /\ Has(result, "Category is required") <=> IsBlank(argument.category)
        /\ About(result, {"Name is required",
                          "Name must be less than 100 characters"}) <= 1
        /\ About(result, {"Description is required",
                          "Description must be less than 500 characters"}) <= 1
        /\ About(result, {"Category is required"}) <= 1
        /\ Len(result) <= 3
        /\ (/\ ~IsBlank(argument.name) /\ Len(argument.name) <= 100
            /\ ~IsBlank(argument.description) /\ Len(argument.description) <= 500
            /\ ~IsBlank(argument.category)) => result = <<>>

\* C14 witness: a whitespace-only name, no description and an empty category
\* give all three messages.
C14_ThreeErrorsCase ==
    /\ phase = "output"
    /\ call.op = "validateFeature"
    /\ Len(argument.name) = 2
    /\ argument.description = UNDEFINED
    /\ argument.category = <<>>
    /\ result = <<"Name is required", "Description is required", "Category is required">>

\* C15: any two calls of generateFeatureId in one process return different
\* strings, also two calls in the same millisecond.
C15_IdsDiffer ==
    phase = "clock" =>
        \A i, j \in 1..Len(result) : i # j => result[i] # result[j]

ListRendered == phase \in {"output", "clicked"} /\ call.op \in {"FeatureList", "click"}

\* an error is provided: a message, which null, undefined and '' are not
ErrorProvided(e) == e \notin {Absent, Given(NULL), Given(<<>>)}

\* C17: FeatureList renders one view: the loading skeleton whenever isLoading is
\* true; otherwise the error state whenever an error is provided; otherwise the
\* empty state when there are no features; otherwise the list, one item per
\* feature in the order given.
C17_ViewPriority ==
    ListRendered =>
        LET loading == argument.isLoading = Given(TRUE)
            failed == ErrorProvided(argument.error)
            empty == Len(argument.features) = 0
        IN  /\ result.view \in {"LoadingSkeleton", "ErrorState", "EmptyState", "list"}
            /\ loading => result.view = "LoadingSkeleton"
            /\ (~loading /\ failed) =>
                  (result.view = "ErrorState" /\ Given(result.message) = argument.error)
            /\ (~loading /\ ~failed /\ empty) => result.view = "EmptyState"
            /\ (~loading /\ ~failed /\ ~empty) =>
                  /\ result.view = "list"
                  /\ [i \in 1..Len(result.items) |-> result.items[i].feature]
                       = argument.features
            /\ result.view # "list" => result.items = <<>>

\* C17 witness: isLoading with an error and two features given shows the skeleton.
C17_LoadingOverAllCase ==
    /\ phase = "output"
    /\ call.op = "FeatureList"
    /\ argument.isLoading = Given(TRUE)
    /\ argument.error = Given(ErrorMessage)
    /\ Len(argument.features) = 2
    /\ result.view = "LoadingSkeleton"

\* C18: a click on the switch of a card that is not disabled calls onToggle
\* once, with the id of that card's feature and the negation of its enabled.
C18_ClickCallsOnToggle ==
    (phase = "clicked" /\ argument.disabled # Given(TRUE)) =>
        call.onToggle = << [id |-> argument.features[call.card].id,
                            enabled |-> ~argument.features[call.card].enabled] >>

\* C18 witness: the second card of a list of two features with different ids
\* and different enabled values was clicked.
C18_SecondCardCase ==
    /\ phase = "clicked"
    /\ argument.disabled # Given(TRUE)
    /\ Len(argument.features) = 2
    /\ argument.features[1].id # argument.features[2].id
    /\ argument.features[1].enabled # argument.features[2].enabled
    /\ call.card = 2
    /\ Len(call.onToggle) = 1

\* the options given at construction, all left out when no argument is given
GivenOptions == IF argument = Absent THEN NoOptions ELSE argument[1]

\* C19: the hook is constructed with features equal to the initialFeatures
\* given, or to the sample data (which is not empty) when none are given; with
\* the filters search '', status 'all', category null; with isLoading equal
\* to simulateLoading, false when left out; and with error 'Failed to load
\* features' exactly when simulateError is set, null otherwise.
C19_Construction ==
    (phase = "hook" /\ call = NoCall) =>
        /\ GivenOptions.initialFeatures # Absent =>
              Given(features) = GivenOptions.initialFeatures
        /\ GivenOptions.initialFeatures = Absent =>
              (features = INITIAL_FEATURES /\ Len(features) > 0)
        /\ filters = [search |-> <<>>, status |-> "all", category |-> NULL]
        /\ isLoading = (GivenOptions.simulateLoading = Given(TRUE))
        /\ error = (IF GivenOptions.simulateError = Given(TRUE)
                    THEN <<"Failed to load features">> ELSE NULL)

\* C19 witness: constructed with simulateLoading and simulateError set and no
\* initialFeatures, the hook has the eight sample features, loads and has the error.
C19_SeedCase ==
    /\ phase = "hook"
    /\ call = NoCall
    /\ argument # Absent
    /\ GivenOptions.initialFeatures = Absent
    /\ Len(features) = 8
    /\ isLoading
    /\ error = ErrorMessage

OneToggleQueued == phase = "hook" /\ batchLen = 1 /\ call.op = "toggleFeature"

\* C21: toggleFeature with an id that no record has keeps the collection object:
\* the queued update does not replace features, so nothing derived from it is
\* recomputed.
C21_UnknownIdKeepsReference ==
    (OneToggleQueued /\ ~HasId(features, call.id)) => ~dirty.features

\* C22: after toggleFeature(id, v) every record whose id is not id is the object
\* it was, and exactly the records whose id is id are new objects.
C22_UntouchedRecordsKept ==
    OneToggleQueued =>
        \A i \in 1..Len(features) :
            IF features[i].id = call.id
            THEN i \in call.replaced
            ELSE i \notin call.replaced /\ pending.features[i] = features[i]

\* C22 witness: the second of two records with different ids was toggled and
\* only it is a new object.
C22_SecondReplacedCase ==
    /\ OneToggleQueued
    /\ Len(features) = 2
    /\ UniqueIds(features)
    /\ call.replaced = {2}
    /\ pending.features[1] = features[1]
    /\ pending.features[2] # features[2]

\* C23: the length limits are inclusive and apply to a non-blank value only: a
\* non-blank name gets 'Name must be less than 100 characters' exactly when it
\* has 101 characters or more, and no name message at all with 100 or fewer; the
\* same for the description with 500 and 501; a blank value of any length gets
\* only its 'required' message, so no field gets both.
C23_InclusiveLimits ==
    (phase = "output" /\ call.op = "validateFeature") =>
        /\ ~IsBlank(argument.name) =>
              /\ Has(result, "Name must be less than 100 characters")
                    <=> Len(argument.name) >= 101
              /\ Len(argument.name) <= 100 =>
                    About(result, {"Name is required",
                                   "Name must be less than 100 characters"}) = 0
        /\ ~IsBlank(argument.description) =>
              /\ Has(result, "Description must be less than 500 characters")
                    <=> Len(argument.description) >= 501
              /\ Len(argument.description) <= 500 =>
                    About(result, {"Description is required",
                                   "Description must be less than 500 characters"}) = 0
        /\ IsBlank(argument.name) =>
              ~Has(result, "Name must be less than 100 characters")
        /\ IsBlank(argument.description) =>
              ~Has(result, "Description must be less than 500 characters")
        /\ ~(/\ Has(result, "Name is required")
             /\ Has(result, "Name must be less than 100 characters"))
        /\ ~(/\ Has(result, "Description is required")
             /\ Has(result, "Description must be less than 500 characters"))

\* C23 witness: a name of exactly 100 characters passes while a description of
\* 501 characters is reported.
C23_AtAndAboveLimitCase ==
    /\ phase = "output"
    /\ call.op = "validateFeature"
    /\ ~IsBlank(argument.name)
    /\ Len(argument.name) = 100
    /\ ~IsBlank(argument.description)
    /\ Len(argument.description) = 501
    /\ ~IsBlank(argument.category)
    /\ result = <<"Description must be less than 500 characters">>

\* C24: in a FeatureList rendered with disabled set the switch of every card
\* is disabled, and no click on any of them, however many, calls onToggle.
C24_DisabledList ==
    (ListRendered /\ argument.disabled = Given(TRUE)) =>
        /\ \A i \in 1..Len(result.items) : result.items[i].switch.disabled
        /\ phase = "clicked" => call.onToggle = <<>>

\* C24 witness: the second card of a disabled list of two features was clicked
\* and onToggle was not called.
C24_DisabledClickCase ==
    /\ phase = "clicked"
    /\ argument.disabled = Given(TRUE)
    /\ result.view = "list"
    /\ Len(result.items) = 2
    /\ call.card = 2
    /\ call.onToggle = <<>>

\* fs has the records of R in R's order, equal in all but the enabled flag
SameButEnabled(fs, R) ==
    /\ Len(fs) = Len(R)
    /\ \A i \in 1..Len(R) :
          /\ fs[i].id = R[i].id
          /\ fs[i].name = R[i].name
          /\ fs[i].description = R[i].description
          /\ fs[i].category = R[i].category

\* C25: through every sequence of operations the collection keeps the length,
\* the order and every record's id, name, description and category it was
\* constructed with; only enabled flags change, so counts.all and the categories
\* list stay what they were at construction.
C25_StructureFixed ==
    phase = "hook" =>
        /\ SameButEnabled(features, options.initialFeatures)
        /\ SameButEnabled(pending.features, options.initialFeatures)
        /\ counts.all = Len(options.initialFeatures)
        /\ categories = getUniqueCategories(options.initialFeatures)
        /\ IsSortedLabelsOf(categories, options.initialFeatures)

\* C25 witness: a batch with toggles and setters was rendered, counts and
\* categories were recomputed, the enabled count changed and the structure of
\* the collection did not.
C25_OnlyFlagsChangedCase ==
    /\ Rendered
    /\ call.isNew.features
    /\ call.isNew.filters
    /\ Len(features) = 2
    /\ features # options.initialFeatures
    /\ counts.enabled # hookCounts(options.initialFeatures).enabled
    /\ counts.all = 2
    /\ Len(categories) = 2

\* the number of positions of list that hold the record r
Occurrences(r, list) == Cardinality({i \in 1..Len(list) : list[i] = r})

\* C26: for one collection, search text and category, the results for status
\* 'enabled' and 'disabled' have no record in common, their sizes add up to the
\* size of the result for 'all', and every record of the 'all' result is in
\* exactly one of the two.
C26_StatusPartition ==
    (phase = "output" /\ call.op = "filterFeatures by status") =>
        /\ \A i \in 1..Len(result["enabled"]) :
              Occurrences(result["enabled"][i], result["disabled"]) = 0
        /\ Len(result["enabled"]) + Len(result["disabled"]) = Len(result["all"])
        /\ \A i \in 1..Len(result["all"]) :
              Occurrences(result["all"][i], result["enabled"])
                + Occurrences(result["all"][i], result["disabled"]) = 1

\* C26 witness: a search and a category that keep two records, one enabled and
\* one disabled.
C26_OneEachCase ==
    /\ phase = "output"
    /\ call.op = "filterFeatures by status"
    /\ filters.search # <<>>
    /\ filters.category # NULL
    /\ Len(result["all"]) = 2
    /\ Len(result["enabled"]) = 1
    /\ Len(result["disabled"]) = 1

\* C27: toggleFeature(id, v) made twice leaves the collection that making it
\* once leaves; after toggleFeature(id, v1) and then toggleFeature(id, v2) the
\* records with that id have enabled = v2; toggles of two different ids leave
\* the same collection in either order.
C27_ToggleAlgebra ==
    (phase = "output" /\ call.op = "toggleFeature calls") =>
        /\ result.twice = result.once
        /\ argument.first.id = argument.second.id =>
              \A i \in 1..Len(features) :
                  features[i].id = argument.second.id =>
                      result.firstSecond[i].enabled = argument.second.enabled
        /\ argument.first.id # argument.second.id =>
              result.firstSecond = result.secondFirst

\* C27 witness: two toggles of different ids of the collection, each changing
\* its record.
C27_BothChangedCase ==
    /\ phase = "output"
    /\ call.op = "toggleFeature calls"
    /\ Len(features) = 2
    /\ argument.first.id = features[1].id
    /\ argument.second.id = features[2].id
    /\ argument.first.id # argument.second.id
    /\ result.firstSecond[1].enabled # features[1].enabled
    /\ result.firstSecond[2].enabled # features[2].enabled
    /\ result.secondFirst = result.firstSecond

\* C28: every toggleFeature call of a batch takes effect. A call made when
\* other calls are queued sets its own records and keeps every other record as
\* the calls queued before it left it, not as the last render showed it, and
\* the render after the batch returns the collection all the calls produced.
C28_NoToggleLost ==
    [][ /\ \A id \in Ids, v \in BOOLEAN :
            (toggleFeature(id, v) /\ batchLen >= 1) =>
                /\ Len(pending'.features) = Len(pending.features)
                /\ \A i \in 1..Len(pending.features) :
                      IF pending.features[i].id = id
                      THEN pending'.features[i].enabled = v
                      ELSE pending'.features[i] = pending.features[i]
        /\ (Render /\ batchLen >= 2) => features' = pending.features ]_vars

\* C28 witness: a batch of two toggleFeature calls on the two ids of the
\* collection has changed both records.
C28_TwoQueuedCase ==
    /\ phase = "hook"
    /\ batchLen = 2
    /\ dirty = [features |-> TRUE, filters |-> FALSE]
    /\ Len(features) = 2
    /\ UniqueIds(features)
    /\ pending.features[1].enabled # features[1].enabled
    /\ pending.features[2].enabled # features[2].enabled

\* C29: the cleared status is absorbing. Once error is null it stays null and
\* once isLoading is false it stays false, in the state returned and in the
\* state queued, through every operation and render; and once retry() was
\* called the queued state has error null and isLoading false from then on.
C29_ClearedIsAbsorbing ==
    [][ /\ error = NULL => error' = NULL
        /\ ~isLoading => ~isLoading'
        /\ pending.error = NULL => pending'.error = NULL
        /\ ~pending.isLoading => ~pending'.isLoading
        /\ retried => (retried' /\ pending'.error = NULL /\ ~pending'.isLoading) ]_vars

\* C29 witness: on a hook constructed with simulateError and simulateLoading,
\* after retry() a batch of a toggleFeature and a setter was rendered, and
\* error is null and isLoading false.
C29_StillClearedCase ==
    /\ Rendered
    /\ retried
    /\ options.simulateError
    /\ options.simulateLoading
    /\ call.calls = 2
    /\ call.isNew.features
    /\ call.isNew.filters
    /\ error = NULL
    /\ ~isLoading

\* the sizes of the groups of a mapping, added up over the keys given
RECURSIVE GroupSizes(_, _)
GroupSizes(groups, keys) ==
    IF keys = {} THEN 0
    ELSE LET key == CHOOSE k \in keys : TRUE
         IN  Len(groups[key]) + GroupSizes(groups, keys \ {key})

\* C30: groupFeaturesByCategory(R) partitions R. It returns a mapping in which
\* every record of R is in exactly one group and there exactly once, whose
\* group sizes add up to the length of R, and none of whose groups is empty.
C30_GroupsPartition ==
    (phase = "output" /\ call.op = "groupFeaturesByCategory") =>
        /\ ~result.threw
        /\ \A i \in 1..Len(features) :
              /\ Cardinality({key \in DOMAIN result.value :
                                Occurrences(features[i], result.value[key]) > 0}) = 1
              /\ \A key \in DOMAIN result.value :
                    Occurrences(features[i], result.value[key]) \in
                        {0, Occurrences(features[i], features)}
        /\ GroupSizes(result.value, DOMAIN result.value) = Len(features)
        /\ \A key \in DOMAIN result.value : result.value[key] # <<>>

====
